---- MODULE Spec2Model ----
(***************************************************************************)
(* Model of the mock OPC UA server (src/opcua_server.py) and of the        *)
(* polling client (src/opcua_client.py).                                   *)
(*                                                                         *)
(* Each script is a sequential process; its position is the source line    *)
(* of the statement it executes next ("L38" is line 38).  The two processes *)
(* interleave freely.  The only things they could share are the TCP        *)
(* endpoint and, through a session, the server's address space.            *)
(*                                                                         *)
(* Floating-point values are IEEE-754 doubles.  A value is written         *)
(* [n |-> N, off |-> D] and stands for the double N + D * 2^-53, where N   *)
(* is an integer and D is a small multiple of the spacing of doubles       *)
(* around N, so every value of the model is a double that exists.          *)
(***************************************************************************)
EXTENDS Integers, Sequences, FiniteSets, TLC

(* ------------------------------ bounds -------------------------------- *)

\* The update loop runs at most MaxTicks ticks, the poll loop MaxPolls.
MaxTicks == 2
MaxPolls == 2
\* random() returns k * 2^-53 with 0 <= k < 2^53.  The model draws the
\* MaxDraw smallest and the MaxDraw largest values of k.
MaxDraw == 1

(* ------------------ constants of opcua_server.py ---------------------- *)

ServerBindHost == "0.0.0.0"
ServerPort == 4842
ServerNamespaceUri == "http://example.com/mockopcua"
DeviceName == "MockDevice"
TagNames == <<"Temperature", "Pressure", "FlowRate">>
Tags == {TagNames[i] : i \in 1..Len(TagNames)}

TemperatureInitial == 25
PressureInitial == 1000
FlowRateInitial == 10

TemperatureMin == 20
TemperatureMax == 30
PressureMin == 950
PressureMax == 1050
FlowRateMin == 5
FlowRateMax == 15

(* ------------------ constants of opcua_client.py ---------------------- *)

ClientHost == "localhost"
ClientPort == 4841
ClientNamespaceIndex == 2
ClientDevicePath == <<[ns |-> 0, name |-> "Objects"],
                      [ns |-> ClientNamespaceIndex, name |-> "MockDevice"]>>
ClientTagPath(tag) == <<[ns |-> ClientNamespaceIndex, name |-> tag]>>

(* ------------------------ double arithmetic --------------------------- *)

Float(n) == [n |-> n, off |-> 0]

\* Comparisons of a value with an integer (|off * 2^-53| < 1).
FloatLess(v, m) == v.n < m \/ (v.n = m /\ v.off < 0)
FloatLeq(v, m) == v.n < m \/ (v.n = m /\ v.off <= 0)
FloatGeq(v, m) == v.n > m \/ (v.n = m /\ v.off >= 0)

RECURSIVE Pow2Floor(_)
\* The largest power of two that is <= n, n >= 1.
Pow2Floor(n) == IF n < 2 THEN 1 ELSE 2 * Pow2Floor(n \div 2)

\* Spacing of the doubles next to n + off * 2^-53, in units of 2^-53:
\* 2^(e-52) for a value in [2^e, 2^(e+1)).
Ulp(n, off) ==
    IF off < 0 /\ n = Pow2Floor(n) THEN Pow2Floor(n) ELSE 2 * Pow2Floor(n)

\* Round-to-nearest, ties-to-even, of off onto the multiples of u.  The
\* significand of the integer anchor is even, so the parity of the
\* quotient is the parity of the significand.
RoundNearestEven(off, u) ==
    LET q == off \div u
        r == off % u
    IN  IF 2 * r < u THEN q * u
        ELSE IF 2 * r > u THEN (q + 1) * u
        ELSE IF q % 2 = 0 THEN q * u ELSE (q + 1) * u

\* The values random() can return: k * 2^-53.  [top |-> FALSE, d |-> k]
\* is k = d; [top |-> TRUE, d |-> j] is k = 2^53 - j.
RandomDraws ==
    [top : {FALSE}, d : 0..(MaxDraw - 1)] \cup [top : {TRUE}, d : 1..MaxDraw]

\* width * random(), rounded to double; width is an integer.
FloatMulRandom(width, k) ==
    IF k.top
    THEN [n |-> width,
          off |-> RoundNearestEven(-(width * k.d), Ulp(width, -1))]
    ELSE [n |-> 0, off |-> width * k.d]

\* a + p, rounded to double; a is an integer.
FloatAdd(a, p) ==
    LET s == a + p.n
    IN  [n |-> s, off |-> RoundNearestEven(p.off, Ulp(s, p.off))]

\* Faulty variant: the offset is added to the upper end of the range.
uniformFromUpper(a, b, k) == FloatAdd(b, FloatMulRandom(b - a, k))

\* random.uniform(a, b) is a + (b - a) * random().
uniform(a, b, k) == FloatAdd(a, FloatMulRandom(b - a, k))

\* f"{v:.2f}": the value rounded to hundredths, as a number of hundredths.
Format2(v) == 100 * v.n

NoValue == [n |-> -1, off |-> 0]

(* ------------------------------- state -------------------------------- *)

VARIABLES
    spc,            \* server: line of the next statement, or how it ended
    listening,      \* server: the endpoint is open (between start and stop)
    namespaces,     \* server: namespace array of the address space
    registry,       \* server: current value of every tag node
    drawn,          \* server: temp_value, pressure_value, flow_value
    serr,           \* server: the exception being propagated
    sintrAt,        \* server: statement the interrupt arrived at
    slog,           \* server: lines printed
    sshown,         \* server: the three numbers of the last tick line
    tickOf,         \* server: number of the tick that last wrote each tag
    scalls,         \* server: calls made on the library after construction
    cpc,            \* client: line of the next statement, or how it ended
    session,        \* client: what the session is connected to
    dialled,        \* client: what connect() found, and whether the mock
                    \* server was listening then
    device,         \* client: mock_device handle is resolved
    got,            \* client: temp, pressure, flow
    gotTick,        \* client: the server tick each value read was written
                    \* in, {} for a value that is not the mock server's
    cerr,           \* client: the exception being propagated
    clog,           \* client: lines printed
    cshown,         \* client: the three numbers of the last tick line
    ccalls          \* client: calls made on the library

svars == <<spc, listening, namespaces, registry, drawn, serr, sintrAt, slog,
           sshown, tickOf, scalls>>
cvars == <<cpc, session, dialled, device, got, gotTick, cerr, clog, cshown,
           ccalls>>
vars == <<svars, cvars>>

\* The printed lines are kept by their fixed text; of the numbers of the
\* tick lines, those of the last one are kept.
TickText == "Temperature: , Pressure: , Flow Rate: "
StartedText == "Mock OPC UA Server started at opc.tcp://localhost:4842"
Shown(t, p, f) == <<Format2(t), Format2(p), Format2(f)>>
IsTickLine(l) == l = TickText
TickLines(log) == SelectSeq(log, IsTickLine)

\* A call that returned, and a call that raised.
Call(op, arg) == [op |-> op, arg |-> arg, raised |-> FALSE]
CallRaised(op, arg) == [op |-> op, arg |-> arg, raised |-> TRUE]
CountCalls(calls, op, arg) ==
    Cardinality({i \in 1..Len(calls) : calls[i].op = op /\ calls[i].arg = arg})

(* ------------------------------ server -------------------------------- *)

\* Lines 15-35: the address space after construction.  register_namespace
\* appends the uri to the namespace array and returns its index.
InitialNamespaces ==
    <<"http://opcfoundation.org/UA/", "urn:freeopcua:python:server">>
register_namespace(array, uri) == Append(array, uri)
\* The index, counted from 0, register_namespace returned for the uri: idx.
get_namespace_index(array, uri) ==
    (CHOOSE i \in 1..Len(array) : array[i] = uri) - 1

TagMin(tag) ==
    IF tag = "Temperature" THEN TemperatureMin
    ELSE IF tag = "Pressure" THEN PressureMin ELSE FlowRateMin
TagMax(tag) ==
    IF tag = "Temperature" THEN TemperatureMax
    ELSE IF tag = "Pressure" THEN PressureMax ELSE FlowRateMax

InitialRegistry ==
    [t \in Tags |->
        IF t = "Temperature" THEN Float(TemperatureInitial)
        ELSE IF t = "Pressure" THEN Float(PressureInitial)
        ELSE Float(FlowRateInitial)]

ServerTryBody == {"L45", "L50", "L51", "L52", "L54", "L57"}

ServerInit ==
    /\ spc = "L38"
    /\ listening = FALSE
    /\ namespaces = register_namespace(InitialNamespaces, ServerNamespaceUri)
    /\ registry = InitialRegistry
    /\ drawn = [t \in Tags |-> NoValue]
    /\ serr = "none"
    /\ sintrAt = "none"
    /\ slog = <<>>
    /\ sshown = <<>>
    /\ tickOf = [t \in Tags |-> 0]
    /\ scalls = <<>>

\* Line 38: server.start() opens the endpoint.
ServerStart ==
    /\ spc = "L38"
    /\ listening' = TRUE
    /\ scalls' = Append(scalls, Call("start", ""))
    /\ spc' = "L39"
    /\ UNCHANGED <<namespaces, registry, drawn, serr, sintrAt, slog, sshown,
                   tickOf>>
    /\ UNCHANGED cvars

\* Line 38: server.start() raises (the port is taken); nothing handles it.
ServerStartFails ==
    /\ spc = "L38"
    /\ scalls' = Append(scalls, CallRaised("start", ""))
    /\ serr' = "OSError"
    /\ spc' = "aborted"
    /\ UNCHANGED <<listening, namespaces, registry, drawn, sintrAt, slog,
                   sshown, tickOf>>
    /\ UNCHANGED cvars

\* Line 39.
ServerPrintStarted ==
    /\ spc = "L39"
    /\ slog' = Append(slog, StartedText)
    /\ spc' = "L45"
    /\ UNCHANGED <<listening, namespaces, registry, drawn, serr, sintrAt,
                   sshown, tickOf, scalls>>
    /\ UNCHANGED cvars

\* Lines 43-47: the top of the loop draws the three values.
ServerDraw ==
    /\ spc = "L45"
    /\ Len(TickLines(slog)) < MaxTicks
    /\ \E kt \in RandomDraws, kp \in RandomDraws, kf \in RandomDraws :
         drawn' = [t \in Tags |->
            uniform(TagMin(t), TagMax(t),
                    IF t = "Temperature" THEN kt
                    ELSE IF t = "Pressure" THEN kp ELSE kf)]
    /\ spc' = "L50"
    /\ UNCHANGED <<listening, namespaces, registry, serr, sintrAt, slog,
                   sshown, tickOf, scalls>>
    /\ UNCHANGED cvars

ServerSetLine(tag) ==
    IF tag = "Temperature" THEN "L50" ELSE IF tag = "Pressure" THEN "L51" ELSE "L52"
ServerAfterSet(tag) ==
    IF tag = "Temperature" THEN "L51" ELSE IF tag = "Pressure" THEN "L52" ELSE "L54"

\* Faulty variant: every tag is given temp_value.
ServerSetValueOfTemperature(tag) ==
    /\ spc = ServerSetLine(tag)
    /\ registry' = [registry EXCEPT ![tag] = drawn["Temperature"]]
    /\ tickOf' = [tickOf EXCEPT ![tag] = Len(TickLines(slog)) + 1]
    /\ scalls' = Append(scalls, Call("set_value", tag))
    /\ spc' = ServerAfterSet(tag)
    /\ UNCHANGED <<listening, namespaces, drawn, serr, sintrAt, slog, sshown>>
    /\ UNCHANGED cvars

\* Lines 50-52: tag.set_value(value).
ServerSetValue(tag) ==
    /\ spc = ServerSetLine(tag)
    /\ registry' = [registry EXCEPT ![tag] = drawn[tag]]
    /\ tickOf' = [tickOf EXCEPT ![tag] = Len(TickLines(slog)) + 1]
    /\ scalls' = Append(scalls, Call("set_value", tag))
    /\ spc' = ServerAfterSet(tag)
    /\ UNCHANGED <<listening, namespaces, drawn, serr, sintrAt, slog, sshown>>
    /\ UNCHANGED cvars

\* Faulty variant: server.stop() sits in the handler, not in a finally clause.
ServerSetValueFailsUnreleased(tag) ==
    /\ spc = ServerSetLine(tag)
    /\ scalls' = Append(scalls, CallRaised("set_value", tag))
    /\ serr' = "WriteError"
    /\ spc' = "raised"
    /\ UNCHANGED <<listening, namespaces, registry, drawn, sintrAt, slog,
                   sshown, tickOf>>
    /\ UNCHANGED cvars

\* Lines 50-52: set_value raises; only the finally clause runs.
ServerSetValueFails(tag) ==
    /\ spc = ServerSetLine(tag)
    /\ scalls' = Append(scalls, CallRaised("set_value", tag))
    /\ serr' = "WriteError"
    /\ spc' = "L62"
    /\ UNCHANGED <<listening, namespaces, registry, drawn, sintrAt, slog,
                   sshown, tickOf>>
    /\ UNCHANGED cvars

\* Line 54.
ServerPrintTick ==
    /\ spc = "L54"
    /\ slog' = Append(slog, TickText)
    /\ sshown' = Shown(drawn["Temperature"], drawn["Pressure"], drawn["FlowRate"])
    /\ spc' = "L57"
    /\ UNCHANGED <<listening, namespaces, registry, drawn, serr, sintrAt,
                   tickOf, scalls>>
    /\ UNCHANGED cvars

\* Line 57: time.sleep(1) returns.
ServerSleep ==
    /\ spc = "L57"
    /\ spc' = "L45"
    /\ UNCHANGED <<listening, namespaces, registry, drawn, serr, sintrAt,
                   slog, sshown, tickOf, scalls>>
    /\ UNCHANGED cvars

\* The interrupt signal: KeyboardInterrupt is raised at the statement the
\* main thread is about to run or is blocked in.  Inside the try statement
\* (lines 41-57) the handler of line 59 takes it; at line 39 nothing does.
\* One signal is delivered per run, and none once an error propagates.
ServerInterrupt ==
    /\ spc \in ServerTryBody \cup {"L39"}
    /\ serr = "none"
    /\ serr' = "KeyboardInterrupt"
    /\ sintrAt' = spc
    /\ spc' = IF spc \in ServerTryBody THEN "L60" ELSE "aborted"
    /\ UNCHANGED <<listening, namespaces, registry, drawn, slog, sshown,
                   tickOf, scalls>>
    /\ UNCHANGED cvars

\* Faulty variant: the handler sits inside the loop, which then goes on.
ServerPrintShuttingDownAndContinue ==
    /\ spc = "L60"
    /\ slog' = Append(slog, "Shutting down server...")
    /\ spc' = "L45"
    /\ UNCHANGED <<listening, namespaces, registry, drawn, serr, sintrAt,
                   sshown, tickOf, scalls>>
    /\ UNCHANGED cvars

\* Line 60.
ServerPrintShuttingDown ==
    /\ spc = "L60"
    /\ slog' = Append(slog, "Shutting down server...")
    /\ spc' = "L62"
    /\ UNCHANGED <<listening, namespaces, registry, drawn, serr, sintrAt,
                   sshown, tickOf, scalls>>
    /\ UNCHANGED cvars

\* Line 62.
ServerStop ==
    /\ spc = "L62"
    /\ listening' = FALSE
    /\ scalls' = Append(scalls, Call("stop", ""))
    /\ spc' = "L63"
    /\ UNCHANGED <<namespaces, registry, drawn, serr, sintrAt, slog, sshown,
                   tickOf>>
    /\ UNCHANGED cvars

\* Line 63; then the handled interrupt ends the script, an error propagates.
ServerPrintStopped ==
    /\ spc = "L63"
    /\ slog' = Append(slog, "Server stopped.")
    /\ spc' = IF serr = "KeyboardInterrupt" THEN "exited" ELSE "raised"
    /\ UNCHANGED <<listening, namespaces, registry, drawn, serr, sintrAt,
                   sshown, tickOf, scalls>>
    /\ UNCHANGED cvars

ServerNext ==
    \/ ServerStart
    \/ ServerStartFails
    \/ ServerPrintStarted
    \/ ServerDraw
    \/ \E tag \in Tags : ServerSetValue(tag)
    \/ \E tag \in Tags : ServerSetValueFails(tag)
    \/ ServerPrintTick
    \/ ServerSleep
    \/ ServerInterrupt
    \/ ServerPrintShuttingDown
    \/ ServerStop
    \/ ServerPrintStopped

(* ------------------------------ client -------------------------------- *)

\* What the address opc.tcp://localhost:4841 reaches.  The mock server is
\* reached when it binds the dialled port on an address localhost maps to.
DialsMockServer ==
    /\ ClientPort = ServerPort
    /\ ServerBindHost \in {"0.0.0.0", ClientHost}

\* On any other port the client finds nobody or a server that is not the
\* mock server, whose address space and values are unknown.
Listeners ==
    IF DialsMockServer
    THEN (IF listening THEN {"MockServer"} ELSE {"nobody"})
    ELSE {"nobody", "OtherServer"}

OtherServerValues == {Float(0)}

\* The browse path of the device and of a tag exist in the mock server's
\* address space.
MockHasDevice(path) ==
    /\ Len(path) = 2
    /\ path[1] = [ns |-> 0, name |-> "Objects"]
    /\ path[2] = [ns |-> get_namespace_index(namespaces, ServerNamespaceUri),
                  name |-> DeviceName]
MockHasTag(path) ==
    /\ Len(path) = 1
    /\ path[1].ns = get_namespace_index(namespaces, ServerNamespaceUri)
    /\ path[1].name \in Tags

ClientTryBody ==
    {"L20", "L22", "L26", "L26v", "L27", "L27v", "L28", "L28v", "L30", "L31"}

ClientInit ==
    /\ cpc = "L15"
    /\ session = "none"
    /\ dialled = [peer |-> "none", mockListening |-> FALSE]
    /\ device = FALSE
    /\ got = [t \in Tags |-> NoValue]
    /\ gotTick = [t \in Tags |-> {}]
    /\ cerr = "none"
    /\ clog = <<>>
    /\ cshown = <<>>
    /\ ccalls = <<>>

\* Line 15: client.connect() opens a session with whoever listens.
ClientConnect ==
    /\ cpc = "L15"
    /\ \E peer \in Listeners \ {"nobody"} :
         /\ session' = peer
         /\ dialled' = [peer |-> peer, mockListening |-> listening]
    /\ ccalls' = Append(ccalls, Call("connect", ""))
    /\ cpc' = "L16"
    /\ UNCHANGED <<device, got, gotTick, cerr, clog, cshown>>
    /\ UNCHANGED svars

\* Line 15: nobody listens; connect() raises outside the try statement.
ClientConnectFails ==
    /\ cpc = "L15"
    /\ "nobody" \in Listeners
    /\ dialled' = [peer |-> "nobody", mockListening |-> listening]
    /\ ccalls' = Append(ccalls, CallRaised("connect", ""))
    /\ cerr' = "ConnectionError"
    /\ cpc' = "aborted"
    /\ UNCHANGED <<session, device, got, gotTick, clog, cshown>>
    /\ UNCHANGED svars

\* Line 16.
ClientPrintConnected ==
    /\ cpc = "L16"
    /\ clog' = Append(clog, "Connected to OPC UA server")
    /\ cpc' = "L20"
    /\ UNCHANGED <<session, dialled, device, got, gotTick, cerr, cshown,
                   ccalls>>
    /\ UNCHANGED svars

\* Line 20: get_root_node() builds a node object locally.
ClientGetRoot ==
    /\ cpc = "L20"
    /\ cpc' = "L22"
    /\ UNCHANGED <<session, dialled, device, got, gotTick, cerr, clog,
                   cshown, ccalls>>
    /\ UNCHANGED svars

\* Line 22: root.get_child(["0:Objects", "2:MockDevice"]).
ClientGetDevice ==
    /\ cpc = "L22"
    /\ session = "MockServer" => MockHasDevice(ClientDevicePath)
    /\ device' = TRUE
    /\ ccalls' = Append(ccalls, Call("get_child", DeviceName))
    /\ cpc' = "L26"
    /\ UNCHANGED <<session, dialled, got, gotTick, cerr, clog, cshown>>
    /\ UNCHANGED svars

\* Line 22: the path does not resolve; only the finally clause runs.
ClientGetDeviceFails ==
    /\ cpc = "L22"
    /\ session = "MockServer" => ~MockHasDevice(ClientDevicePath)
    /\ ccalls' = Append(ccalls, CallRaised("get_child", DeviceName))
    /\ cerr' = "AddressNotFoundError"
    /\ cpc' = "L36"
    /\ UNCHANGED <<session, dialled, device, got, gotTick, clog, cshown>>
    /\ UNCHANGED svars

ClientTagLine(tag) ==
    IF tag = "Temperature" THEN "L26" ELSE IF tag = "Pressure" THEN "L27" ELSE "L28"
ClientValueLine(tag) ==
    IF tag = "Temperature" THEN "L26v" ELSE IF tag = "Pressure" THEN "L27v" ELSE "L28v"
ClientAfterTag(tag) ==
    IF tag = "Temperature" THEN "L27" ELSE IF tag = "Pressure" THEN "L28" ELSE "L30"

\* Lines 26-28, first call: mock_device.get_child(["2:<tag>"]).
ClientGetChild(tag) ==
    /\ cpc = ClientTagLine(tag)
    /\ tag = "Temperature" => Len(TickLines(clog)) < MaxPolls
    /\ session = "MockServer" => MockHasTag(ClientTagPath(tag))
    /\ ccalls' = Append(ccalls, Call("get_child", tag))
    /\ cpc' = ClientValueLine(tag)
    /\ UNCHANGED <<session, dialled, device, got, gotTick, cerr, clog,
                   cshown>>
    /\ UNCHANGED svars

\* Lines 26-28, first call: the tag path does not resolve.
ClientGetChildFails(tag) ==
    /\ cpc = ClientTagLine(tag)
    /\ tag = "Temperature" => Len(TickLines(clog)) < MaxPolls
    /\ session = "MockServer" => ~MockHasTag(ClientTagPath(tag))
    /\ ccalls' = Append(ccalls, CallRaised("get_child", tag))
    /\ cerr' = "AddressNotFoundError"
    /\ cpc' = "L36"
    /\ UNCHANGED <<session, dialled, device, got, gotTick, clog, cshown>>
    /\ UNCHANGED svars

\* Lines 26-28, second call: .get_value() reads the node's current value.
ClientGetValue(tag) ==
    /\ cpc = ClientValueLine(tag)
    /\ session = "MockServer" => listening
    /\ \/ /\ session = "MockServer"
          /\ got' = [got EXCEPT ![tag] = registry[tag]]
          /\ gotTick' = [gotTick EXCEPT ![tag] = {tickOf[tag]}]
       \/ /\ session = "OtherServer"
          /\ \E v \in OtherServerValues : got' = [got EXCEPT ![tag] = v]
          /\ gotTick' = [gotTick EXCEPT ![tag] = {}]
    /\ ccalls' = Append(ccalls, Call("get_value", tag))
    /\ cpc' = ClientAfterTag(tag)
    /\ UNCHANGED <<session, dialled, device, cerr, clog, cshown>>
    /\ UNCHANGED svars

\* Faulty variant: a failed read is skipped and the loop goes on.
ClientGetValueFailsSkipped(tag) ==
    /\ cpc = ClientValueLine(tag)
    /\ session = "MockServer" => ~listening
    /\ ccalls' = Append(ccalls, CallRaised("get_value", tag))
    /\ cpc' = ClientAfterTag(tag)
    /\ UNCHANGED <<session, dialled, device, got, gotTick, cerr, clog,
                   cshown>>
    /\ UNCHANGED svars

\* Lines 26-28, second call: the read fails.
ClientGetValueFails(tag) ==
    /\ cpc = ClientValueLine(tag)
    /\ session = "MockServer" => ~listening
    /\ ccalls' = Append(ccalls, CallRaised("get_value", tag))
    /\ cerr' = "ReadError"
    /\ cpc' = "L36"
    /\ UNCHANGED <<session, dialled, device, got, gotTick, clog, cshown>>
    /\ UNCHANGED svars

\* Line 30.
ClientPrintTick ==
    /\ cpc = "L30"
    /\ clog' = Append(clog, TickText)
    /\ cshown' = Shown(got["Temperature"], got["Pressure"], got["FlowRate"])
    /\ cpc' = "L31"
    /\ UNCHANGED <<session, dialled, device, got, gotTick, cerr, ccalls>>
    /\ UNCHANGED svars

\* Faulty variant: the loop starts above the lookup of the device.
ClientSleepToDeviceLookup ==
    /\ cpc = "L31"
    /\ cpc' = "L22"
    /\ UNCHANGED <<session, dialled, device, got, gotTick, cerr, clog,
                   cshown, ccalls>>
    /\ UNCHANGED svars

\* Line 31: time.sleep(1) returns.
ClientSleep ==
    /\ cpc = "L31"
    /\ cpc' = "L26"
    /\ UNCHANGED <<session, dialled, device, got, gotTick, cerr, clog,
                   cshown, ccalls>>
    /\ UNCHANGED svars

\* The interrupt signal.  Inside the try statement (lines 18-31) the
\* handler of line 33 takes it; at line 16 nothing does.  One signal is
\* delivered per run, and none once an error propagates.
ClientInterrupt ==
    /\ cpc \in ClientTryBody \cup {"L16"}
    /\ cerr = "none"
    /\ cerr' = "KeyboardInterrupt"
    /\ cpc' = IF cpc \in ClientTryBody THEN "L34" ELSE "aborted"
    /\ UNCHANGED <<session, dialled, device, got, gotTick, clog, cshown,
                   ccalls>>
    /\ UNCHANGED svars

\* Line 34.
ClientPrintStopped ==
    /\ cpc = "L34"
    /\ clog' = Append(clog, "Client stopped.")
    /\ cpc' = "L36"
    /\ UNCHANGED <<session, dialled, device, got, gotTick, cerr, cshown,
                   ccalls>>
    /\ UNCHANGED svars

\* Line 36.
ClientDisconnect ==
    /\ cpc = "L36"
    /\ session' = "closed"
    /\ ccalls' = Append(ccalls, Call("disconnect", ""))
    /\ cpc' = "L37"
    /\ UNCHANGED <<dialled, device, got, gotTick, cerr, clog, cshown>>
    /\ UNCHANGED svars

\* Line 37; then the handled interrupt ends the script, an error propagates.
ClientPrintDisconnected ==
    /\ cpc = "L37"
    /\ clog' = Append(clog, "Disconnected from OPC UA server")
    /\ cpc' = IF cerr = "KeyboardInterrupt" THEN "exited" ELSE "raised"
    /\ UNCHANGED <<session, dialled, device, got, gotTick, cerr, cshown,
                   ccalls>>
    /\ UNCHANGED svars

ClientNext ==
    \/ ClientConnect
    \/ ClientConnectFails
    \/ ClientPrintConnected
    \/ ClientGetRoot
    \/ ClientGetDevice
    \/ ClientGetDeviceFails
    \/ \E tag \in Tags : ClientGetChild(tag)
    \/ \E tag \in Tags : ClientGetChildFails(tag)
    \/ \E tag \in Tags : ClientGetValue(tag)
    \/ \E tag \in Tags : ClientGetValueFails(tag)
    \/ ClientPrintTick
    \/ ClientSleep
    \/ ClientInterrupt
    \/ ClientPrintStopped
    \/ ClientDisconnect
    \/ ClientPrintDisconnected

(* --------------------------- specifications --------------------------- *)

Init == ServerInit /\ ClientInit

Next == ServerNext \/ ClientNext

\* Both processes.
Spec == Init /\ [][Next]_vars
\* The server alone and the client alone.
SpecServer == Init /\ [][ServerNext]_vars
SpecClient == Init /\ [][ClientNext]_vars

(* ------------------------------ claims -------------------------------- *)

Returned(calls, op, arg) == \E i \in 1..Len(calls) : calls[i] = Call(op, arg)
ServerEnded == spc \in {"exited", "raised"}
ClientEnded == cpc \in {"exited", "raised"}

\* The value a tag was last given by set_value, if it was given one.
Written(tag) ==
    IF Returned(scalls, "set_value", tag) THEN {registry[tag]} ELSE {}

\* C1 as stated: every value the update loop writes satisfies
\* min <= value < max for its tag, the upper bound excluded.
C1_WrittenBelowMax ==
    \A tag \in Tags : \A v \in Written(tag) :
        FloatGeq(v, TagMin(tag)) /\ FloatLess(v, TagMax(tag))

\* C1 amended: every value the update loop writes satisfies
\* 20 <= Temperature <= 30, 950 <= Pressure <= 1050 and 5 <= FlowRate < 15;
\* the rounding of a + (b - a) * random() reaches the upper bound of
\* Temperature and of Pressure, and does not reach that of FlowRate.
C1_WrittenWithinBounds ==
    \A tag \in Tags : \A v \in Written(tag) :
        /\ FloatGeq(v, TagMin(tag))
        /\ FloatLeq(v, TagMax(tag))
        /\ tag = "FlowRate" => FloatLess(v, TagMax(tag))

\* A tick has written all three tags, Temperature and Pressure at their
\* upper bound and FlowRate just below its own.
C1_Witness ==
    /\ spc = "L54"
    /\ registry["Temperature"] = Float(TemperatureMax)
    /\ registry["Pressure"] = Float(PressureMax)
    /\ registry["FlowRate"].n = FlowRateMax /\ registry["FlowRate"].off < 0

\* Lines printed on the shutdown path: all but the start-up and tick lines.
IsShutdownLine(l) == ~IsTickLine(l) /\ l # StartedText
ShutdownLines(log) == SelectSeq(log, IsShutdownLine)
SetValueCalls == SelectSeq(scalls, LAMBDA c : c.op = "set_value")

\* After an interrupt that arrives in time.sleep: only the handler and the
\* finally clause run, and every set_value and tick line belongs to a tick
\* that completed before the interrupt.
NoUpdateAfterSleepInterrupt ==
    sintrAt = "L57" =>
        /\ spc \in {"L60", "L62", "L63", "exited"}
        /\ registry = drawn
        /\ Len(SetValueCalls) = 3 * Len(TickLines(slog))
        /\ slog[Len(slog) - Len(ShutdownLines(slog))] = TickText
        /\ sshown = Shown(drawn["Temperature"], drawn["Pressure"], drawn["FlowRate"])

\* C4 as stated: an interrupt delivered during time.sleep is followed by no
\* update, by a clean exit, and by exactly one line on the shutdown path.
C4_OneShutdownLine ==
    /\ NoUpdateAfterSleepInterrupt
    /\ (sintrAt = "L57" /\ spc = "exited") => Len(ShutdownLines(slog)) = 1

\* C4 amended: an interrupt delivered during time.sleep is followed by no
\* set_value and no tick line, and the process ends cleanly after printing
\* exactly two lines, "Shutting down server..." and then "Server stopped.".
C4_TwoShutdownLines ==
    /\ NoUpdateAfterSleepInterrupt
    /\ (sintrAt = "L57" /\ spc = "exited") =>
          ShutdownLines(slog) =
              <<"Shutting down server...", "Server stopped.">>

\* The server was interrupted in the sleep of its second tick and has ended.
C4_Witness ==
    /\ sintrAt = "L57"
    /\ spc = "exited"
    /\ Len(TickLines(slog)) = 2

\* The values of the last tick line, or of the initial values before it.
LastLogged ==
    IF TickLines(slog) = <<>>
    THEN Shown(InitialRegistry["Temperature"], InitialRegistry["Pressure"],
               InitialRegistry["FlowRate"])
    ELSE sshown

\* C9 as stated: a tick that has written one tag writes all three and
\* prints its line before the loop stops, so when the server has stopped
\* the registry holds the three initial values or the three values of one
\* completed, logged tick.
C9_WholeTicksOnly ==
    spc = "exited" =>
        /\ Len(SetValueCalls) = 3 * Len(TickLines(slog))
        /\ \/ registry = InitialRegistry
           \/ /\ registry = drawn
              /\ TickLines(slog) # <<>>
              /\ LastLogged = Shown(drawn["Temperature"], drawn["Pressure"],
                                    drawn["FlowRate"])

\* C9 amended: the loop can be left at any statement, also between two
\* set_value calls.  A tick writes Temperature, Pressure, FlowRate in this
\* order and prints its line after the third write, so when the server has
\* stopped the registry holds, for some i in 0..3, the drawn values of the
\* last tick in its first i tags and the values of the last printed tick
\* line (the initial values if there is none) in the others.
C9_PrefixOfTick ==
    /\ \A i \in 1..Len(SetValueCalls) :
          SetValueCalls[i].arg = TagNames[((i - 1) % 3) + 1]
    /\ 3 * Len(TickLines(slog)) <= Len(SelectSeq(SetValueCalls, LAMBDA c : ~c.raised))
    /\ ServerEnded =>
          \E i \in 0..3 : \A j \in 1..3 :
             IF j <= i
             THEN registry[TagNames[j]] = drawn[TagNames[j]]
             ELSE Format2(registry[TagNames[j]]) = LastLogged[j]

\* The server was interrupted between the first and the second set_value
\* of its second tick, and has stopped with a registry of mixed ticks.
C9_Witness ==
    /\ spc = "exited"
    /\ sintrAt = "L51"
    /\ Len(TickLines(slog)) = 1
    /\ registry["Temperature"] = drawn["Temperature"]
    /\ registry["Pressure"] # drawn["Pressure"]

\* C6 as stated: the three tag addresses are resolved once and the handles
\* cached: no tag is looked up twice, and no lookup follows a read.
C6_ResolvedOnce ==
    /\ \A tag \in Tags : CountCalls(ccalls, "get_child", tag) <= 1
    /\ \A i \in 1..Len(ccalls) : \A j \in 1..Len(ccalls) :
          (i < j /\ ccalls[i].op = "get_value") => ccalls[j].op # "get_child"

\* C6 amended: the MockDevice object is resolved exactly once, before the
\* loop, and its handle reused; the three tag addresses are resolved again
\* in every tick, each right before its read: every get_value directly
\* follows a get_child of the same tag, and a tag has been looked up once
\* per tick begun.
C6_ResolvedEveryTick ==
    /\ CountCalls(ccalls, "get_child", DeviceName) <= 1
    /\ device => ccalls[2] = Call("get_child", DeviceName)
    /\ \A i \in 1..Len(ccalls) :
          ccalls[i].op = "get_value" =>
             i > 1 /\ ccalls[i - 1] = Call("get_child", ccalls[i].arg)
    /\ \A i \in 1..Len(ccalls) :
          (ccalls[i].op = "get_child" /\ ccalls[i].arg # DeviceName) => device
    /\ \A tag \in Tags :
          /\ CountCalls(ccalls, "get_child", tag) >= Len(TickLines(clog))
          /\ CountCalls(ccalls, "get_child", tag) <= Len(TickLines(clog)) + 1

\* The client has printed two tick lines and has looked up every tag twice.
C6_Witness ==
    /\ Len(TickLines(clog)) = 2
    /\ \A tag \in Tags : CountCalls(ccalls, "get_child", tag) = 2
    /\ CountCalls(ccalls, "get_child", DeviceName) = 1

\* C7: a lookup or read that fails in the poll loop ends the loop there:
\* the only call after it is disconnect, no tag is read after it, the tick
\* it failed in and the later ticks print no line, and "Client stopped."
\* is not printed.
C7_FailureIsFatal ==
    \A i \in 1..Len(ccalls) :
        (ccalls[i].raised /\ ccalls[i].op \in {"get_child", "get_value"}) =>
            /\ cpc \in {"L36", "L37", "raised"}
            /\ \A j \in (i + 1)..Len(ccalls) : ccalls[j] = Call("disconnect", "")
            /\ \A n \in 1..Len(clog) : clog[n] # "Client stopped."
            /\ Len(TickLines(clog)) =
                  IF ccalls[i].arg = DeviceName THEN 0
                  ELSE CountCalls(ccalls, "get_child", "Temperature") - 1

\* The read of Pressure failed in the second tick and the client has ended.
C7_Witness ==
    /\ cpc = "raised"
    /\ \E i \in 1..Len(ccalls) : ccalls[i] = CallRaised("get_value", "Pressure")
    /\ Len(TickLines(clog)) = 1

\* C8: a process that leaves its try statement, by the interrupt or by an
\* error, releases its transport exactly once, as its last call: stop() is
\* called once after start() returned, disconnect() once after connect()
\* returned and never when connect() raised, and no set_value or get_value
\* follows the release.
C8_ReleasedExactlyOnce ==
    /\ CountCalls(scalls, "stop", "") <= 1
    /\ ServerEnded => CountCalls(scalls, "stop", "") = 1
    /\ \A i \in 1..Len(scalls) :
          scalls[i].op = "stop" => i = Len(scalls) /\ scalls[1] = Call("start", "")
    /\ CountCalls(ccalls, "disconnect", "") <= 1
    /\ ClientEnded => CountCalls(ccalls, "disconnect", "") = 1
    /\ \A i \in 1..Len(ccalls) :
          ccalls[i].op = "disconnect" =>
             i = Len(ccalls) /\ ccalls[1] = Call("connect", "")
    /\ cpc = "aborted" /\ cerr = "ConnectionError" =>
          CountCalls(ccalls, "disconnect", "") = 0

\* The server has ended by the interrupt in the middle of a tick and the
\* client by a failed read; each has released its transport.
C8_Witness ==
    /\ spc = "exited" /\ sintrAt = "L52"
    /\ cpc = "raised" /\ cerr = "ReadError"
    /\ scalls[Len(scalls)] = Call("stop", "")
    /\ ccalls[Len(ccalls)] = Call("disconnect", "")

\* C3: the client dials the endpoint the server listens on and resolves the
\* namespace index and the paths the server registers, so a client started
\* while the server listens gets a session with it.
C3_ClientReachesServer ==
    /\ MockHasDevice(ClientDevicePath)
    /\ \A tag \in Tags : MockHasTag(ClientTagPath(tag))
    /\ dialled.mockListening => dialled.peer = "MockServer"

\* The first tick period: from start() to the end of the first sleep.
FirstTickPeriod ==
    /\ listening
    /\ \/ TickLines(slog) = <<>>
       \/ Len(TickLines(slog)) = 1 /\ spc = "L57"

\* C2: during the first tick period the registry holds the initial values
\* 25.0, 1000.0 and 10.0, and a client started then connects to the server
\* and reads exactly these.
C2_FirstReadReturnsDefaults ==
    FirstTickPeriod =>
        /\ registry = InitialRegistry
        /\ dialled.mockListening =>
              /\ dialled.peer = "MockServer"
              /\ \A tag \in Tags : got[tag] \in {NoValue, InitialRegistry[tag]}

\* C5: once the server has completed a tick, every read of a client started
\* against it returns the value the registry holds, which lies within the
\* tag's bounds; so reads with no set_value between them are equal.
C5_ReadsReturnRegistry ==
    [][\A tag \in Tags :
          ( /\ dialled.mockListening
            /\ Len(TickLines(slog)) >= 1
            /\ cpc = ClientValueLine(tag)
            /\ cpc' = ClientAfterTag(tag) ) =>
                /\ got'[tag] = registry[tag]
                /\ FloatGeq(got'[tag], TagMin(tag))
                /\ FloatLeq(got'[tag], TagMax(tag))]_vars

\* C10: the three values of every line of a client started against the
\* server were written by one and the same server tick, or are the three
\* initial values (tick 0).
C10_LineIsOneServerTick ==
    (dialled.mockListening /\ cpc = "L31") =>
        /\ gotTick["Temperature"] # {}
        /\ gotTick["Pressure"] = gotTick["Temperature"]
        /\ gotTick["FlowRate"] = gotTick["Temperature"]
        /\ cshown = Shown(got["Temperature"], got["Pressure"], got["FlowRate"])
====
